---------------------------- MODULE Spec2Model ----------------------------
(***************************************************************************)
(* Model of the event dispatch registry of domain_events:                  *)
(*   src/domain-events/event.py            EventDispatcher, example types  *)
(*   src/domain-events/event_protocols.py  Event / Handler contracts       *)
(*                                                                         *)
(* The dispatcher's only state is the private dict __handlers (event name  *)
(* -> set of handler objects).  The variables call, outcome and invoked    *)
(* record what the most recent dispatcher call was, how it ended (normal   *)
(* return or the exception that left it) and which handle(event) calls it  *)
(* made, in order; before is the dict as that call found it.  Every        *)
(* dispatcher method is one atomic action.                                 *)
(*                                                                         *)
(* Events are modelled apart from the dispatcher: clock is the UTC clock,  *)
(* date_time_ocurred the default of the dataclass field of that name       *)
(* (evaluated when the class EventInterface is defined), events the event  *)
(* objects constructed so far and made the most recent constructor or      *)
(* to_dict call with its result.                                           *)
(***************************************************************************)
EXTENDS Naturals, Sequences, FiniteSets, TLC

VARIABLES handlers, call, outcome, invoked, before,
          clock, date_time_ocurred, events, made

\* the dispatcher and the observations of its most recent call
dvars == <<handlers, call, outcome, invoked, before>>

\* the clock and the event objects
evars == <<clock, date_time_ocurred, events, made>>

vars == <<handlers, call, outcome, invoked, before,
          clock, date_time_ocurred, events, made>>

----------------------------------------------------------------------------
(* Bound of the model.                                                     *)

\* number of distinct TestHandler instances a caller holds; with the stored
\* SendNewPaymentRequest a handler set has up to NumTestHandler + 1 members
NumTestHandler == 2

\* the clock readings are 0..MaxClock
MaxClock == 2

\* number of event objects kept at a time
MaxEvents == 2

\* size of a handler set when some handlers call the dispatcher themselves
MaxSubscribers == 3

----------------------------------------------------------------------------
(* The objects a caller can pass.                                          *)

\* Event class names / registry keys used by the repository.
EventNames == {"EventTest", "OrderCreatedEvent"}

\* class TestHandler(EventHandlerInterface[EventTest]): a plain class, so
\* object.__eq__ / object.__hash__ (identity).
TestHandlers == {[cls |-> "TestHandler", id |-> i] : i \in 1..NumTestHandler}

\* @dataclass(unsafe_hash=True, order=True) class SendNewPaymentRequest with
\* no fields: every instance equals every other and hashes alike.
\* Two instances are modelled.
SendNewPaymentRequests ==
    {[cls |-> "SendNewPaymentRequest", id |-> i] : i \in {1, 2}}

\* A handler class declared with a bare @dataclass (eq=True, no unsafe_hash):
\* dataclass sets __hash__ to None, so its instances are unhashable.
UnhashableHandlers == {[cls |-> "DataclassHandler", id |-> 1]}

\* Objects that are no EventHandlerInterface: object() (hashable) and a list
\* (unhashable).
NonHandlers == {[cls |-> "object", id |-> 1], [cls |-> "list", id |-> 1]}

Objects == TestHandlers \cup SendNewPaymentRequests \cup UnhashableHandlers \cup NonHandlers

\* Event instances, one per event class: event.__class__.__name__ is the
\* dispatch key.
Events == {[cls |-> n, id |-> 1] : n \in EventNames}

\* What one handle(event) call does: return None, or raise.  KeyError is the
\* exception class notify's except clause names; NotImplementedError is what
\* the base EventHandlerInterface.handle raises.
Faults == {"KeyError", "NotImplementedError"}
Behaviours == {"return"} \cup Faults

----------------------------------------------------------------------------
(* Python semantics the dispatcher relies on.                              *)

\* Handlers whose handle(event) makes one call on the dispatcher that is
\* delivering to them and then returns (an exception of that call leaves
\* handle): plain classes like TestHandler, one instance of each.
CallingHandlers ==
    {[cls |-> c, id |-> 1] :
        c \in {"RegisteringHandler", "UnregisteringHandler",
               "UnregisterAllHandler", "NotifyingHandler"}}

\* isinstance(x, EventHandlerInterface)
IsHandler(x) ==
    x \in TestHandlers \cup SendNewPaymentRequests \cup UnhashableHandlers
          \cup CallingHandlers

\* hash(x) succeeds
Hashable(x) == x \notin UnhashableHandlers /\ x.cls # "list"

\* a == b
Eq(a, b) == \/ a = b
            \/ a \in SendNewPaymentRequests /\ b \in SendNewPaymentRequests

\* x in s   (s a set object, x hashable)
Contains(s, x) == \E m \in s : Eq(m, x)

\* Variant of set.add that tells members apart by identity.
SetAdd_ByIdentity(s, x) == s \cup {x}

\* s.add(x): an equal member already there is kept, x is not stored.
SetAdd(s, x) == IF Contains(s, x) THEN s ELSE s \cup {x}

\* s.remove(x) when x in s: the member equal to x goes.
SetRemove(s, x) == {m \in s : ~Eq(m, x)}

----------------------------------------------------------------------------
(* Results of a call.                                                      *)

Returned == [exc |-> "None", msg |-> <<>>]

\* raise ValueError(f"Event '{name}' not registered")
EventNotRegistered(name) ==
    [exc |-> "ValueError", msg |-> <<"Event '", name, "' not registered">>]

\* raise ValueError(f"EventHandler '{cls}' not registered for event '{name}'")
HandlerNotRegistered(x, name) ==
    [exc |-> "ValueError",
     msg |-> <<"EventHandler '", x.cls, "' not registered for event '", name, "'">>]

\* raise TypeError('Event handler must be an instance of EventHandlerInterface')
NotAHandler ==
    [exc |-> "TypeError",
     msg |-> <<"Event handler must be an instance of EventHandlerInterface">>]

\* TypeError raised by hash() inside set.add / set.remove
Unhashable(x) == [exc |-> "TypeError", msg |-> <<"unhashable type: '", x.cls, "'">>]

\* the exception a handler's handle raised
HandlerFault(f) == [exc |-> f, msg |-> <<"raised by handle">>]

NoArg == [cls |-> "None", id |-> 0]

----------------------------------------------------------------------------
(* EventDispatcher.register                                                *)

\* Variant of register without the "if event_name not in keys" guard: the
\* set is created anew on every call.
Register_AlwaysNewSet(hs, event_name, event_handler) ==
    IF ~IsHandler(event_handler)
    THEN [handlers |-> hs, outcome |-> NotAHandler]
    ELSE LET withKey == [k \in DOMAIN hs \cup {event_name} |->
                            IF k = event_name THEN {} ELSE hs[k]]
         IN  IF ~Hashable(event_handler)
             THEN [handlers |-> withKey, outcome |-> Unhashable(event_handler)]
             ELSE [handlers |-> [withKey EXCEPT ![event_name] = SetAdd(@, event_handler)],
                   outcome  |-> Returned]

\* Variant of register that creates the key before it checks the handler's
\* type.
Register_KeyBeforeCheck(hs, event_name, event_handler) ==
    LET withKey == IF event_name \in DOMAIN hs
                   THEN hs
                   ELSE hs @@ (event_name :> {})
    IN  IF ~IsHandler(event_handler)
        THEN [handlers |-> withKey, outcome |-> NotAHandler]
        ELSE IF ~Hashable(event_handler)
        THEN [handlers |-> withKey, outcome |-> Unhashable(event_handler)]
        ELSE [handlers |-> [withKey EXCEPT ![event_name] = SetAdd(@, event_handler)],
              outcome  |-> Returned]

Register(hs, event_name, event_handler) ==
    IF ~IsHandler(event_handler)
    THEN [handlers |-> hs, outcome |-> NotAHandler]
    ELSE LET withKey == IF event_name \in DOMAIN hs
                        THEN hs
                        ELSE hs @@ (event_name :> {})
         IN  IF ~Hashable(event_handler)
             THEN [handlers |-> withKey, outcome |-> Unhashable(event_handler)]
             ELSE [handlers |-> [withKey EXCEPT ![event_name] = SetAdd(@, event_handler)],
                   outcome  |-> Returned]

register(event_name, event_handler) ==
    LET r == Register(handlers, event_name, event_handler)
    IN  /\ handlers' = r.handlers
        /\ outcome' = r.outcome
        /\ invoked' = <<>>
        /\ call' = [op |-> "register", event_name |-> event_name, arg |-> event_handler]
        /\ before' = handlers
        /\ UNCHANGED evars

----------------------------------------------------------------------------
(* EventDispatcher.unregister                                              *)

\* Variant of unregister that deletes a key whose set it has emptied.
Unregister_DropsEmptyKey(hs, event_name, event_handler) ==
    IF event_name \notin DOMAIN hs
    THEN [handlers |-> hs, outcome |-> EventNotRegistered(event_name)]
    ELSE IF ~Hashable(event_handler)
    THEN [handlers |-> hs, outcome |-> Unhashable(event_handler)]
    ELSE IF ~Contains(hs[event_name], event_handler)
    THEN [handlers |-> hs, outcome |-> HandlerNotRegistered(event_handler, event_name)]
    ELSE IF SetRemove(hs[event_name], event_handler) = {}
    THEN [handlers |-> [k \in DOMAIN hs \ {event_name} |-> hs[k]], outcome |-> Returned]
    ELSE [handlers |-> [hs EXCEPT ![event_name] = SetRemove(@, event_handler)],
          outcome  |-> Returned]

\* Variant of unregister without the "if event_name not in keys" check: the
\* dict lookup inside the try block raises KeyError, which the except clause
\* turns into the handler-not-registered error.
Unregister_NoKeyCheck(hs, event_name, event_handler) ==
    IF event_name \notin DOMAIN hs
    THEN [handlers |-> hs, outcome |-> HandlerNotRegistered(event_handler, event_name)]
    ELSE IF ~Hashable(event_handler)
    THEN [handlers |-> hs, outcome |-> Unhashable(event_handler)]
    ELSE IF ~Contains(hs[event_name], event_handler)
    THEN [handlers |-> hs, outcome |-> HandlerNotRegistered(event_handler, event_name)]
    ELSE [handlers |-> [hs EXCEPT ![event_name] = SetRemove(@, event_handler)],
          outcome  |-> Returned]

\* Variant of unregister that removes the handler from the set of every
\* event name.
Unregister_FromEveryName(hs, event_name, event_handler) ==
    IF event_name \notin DOMAIN hs
    THEN [handlers |-> hs, outcome |-> EventNotRegistered(event_name)]
    ELSE IF ~Hashable(event_handler)
    THEN [handlers |-> hs, outcome |-> Unhashable(event_handler)]
    ELSE IF ~Contains(hs[event_name], event_handler)
    THEN [handlers |-> hs, outcome |-> HandlerNotRegistered(event_handler, event_name)]
    ELSE [handlers |-> [k \in DOMAIN hs |-> SetRemove(hs[k], event_handler)],
          outcome  |-> Returned]

Unregister(hs, event_name, event_handler) ==
    IF event_name \notin DOMAIN hs
    THEN [handlers |-> hs, outcome |-> EventNotRegistered(event_name)]
    ELSE IF ~Hashable(event_handler)
    THEN [handlers |-> hs, outcome |-> Unhashable(event_handler)]
    ELSE IF ~Contains(hs[event_name], event_handler)
    THEN [handlers |-> hs, outcome |-> HandlerNotRegistered(event_handler, event_name)]
    ELSE [handlers |-> [hs EXCEPT ![event_name] = SetRemove(@, event_handler)],
          outcome  |-> Returned]

unregister(event_name, event_handler) ==
    LET r == Unregister(handlers, event_name, event_handler)
    IN  /\ handlers' = r.handlers
        /\ outcome' = r.outcome
        /\ invoked' = <<>>
        /\ call' = [op |-> "unregister", event_name |-> event_name, arg |-> event_handler]
        /\ before' = handlers
        /\ UNCHANGED evars

----------------------------------------------------------------------------
(* EventDispatcher.unregister_all                                          *)

\* Variant of unregister_all that empties every handler set and keeps the
\* keys.
UnregisterAll_KeepsKeys(hs) ==
    [handlers |-> [k \in DOMAIN hs |-> {}], outcome |-> Returned]

UnregisterAll(hs) == [handlers |-> <<>>, outcome |-> Returned]

unregister_all ==
    LET r == UnregisterAll(handlers)
    IN  /\ handlers' = r.handlers
        /\ outcome' = r.outcome
        /\ invoked' = <<>>
        /\ call' = [op |-> "unregister_all", event_name |-> "", arg |-> NoArg]
        /\ before' = handlers
        /\ UNCHANGED evars

----------------------------------------------------------------------------
(* EventDispatcher.notify                                                  *)

\* handler.handle(event) when the handler behaves as b: Returned, or the
\* exception it raises.
Handle(handler, event, b) ==
    IF b = "return" THEN Returned ELSE HandlerFault(b)

\* Variant of the loop that leaves after its first handler.
ForEachHandler_Break(rest, event) ==
    IF rest = {}
    THEN {[invoked |-> <<>>, raised |-> Returned]}
    ELSE {[invoked |-> <<[handler |-> h[1], event |-> event,
                          result |-> Handle(h[1], event, h[2])]>>,
           raised  |-> Handle(h[1], event, h[2])] : h \in rest \X Behaviours}

\* Variant of the loop that isolates faults: it goes on after an exception
\* and lets the first one out at the end.
RECURSIVE ForEachHandler_ContinueOnError(_, _)
ForEachHandler_ContinueOnError(rest, event) ==
    IF rest = {}
    THEN {[invoked |-> <<>>, raised |-> Returned]}
    ELSE UNION {
           LET r == Handle(h[1], event, h[2])
               c == [handler |-> h[1], event |-> event, result |-> r]
           IN  {[invoked |-> <<c>> \o t.invoked,
                 raised  |-> IF r # Returned THEN r ELSE t.raised] :
                    t \in ForEachHandler_ContinueOnError(rest \ {h[1]}, event)}
           : h \in rest \X Behaviours }

\* The for loop of notify over the members not yet iterated: the set iterator
\* yields any one of them, handle is called on it with the event and behaves
\* in any of the ways of Behaviours; an exception ends the loop at once, a
\* return lets it go on with the rest.  The set of the loop's possible runs,
\* each the handle calls made, in order (with how each ended), and what left
\* the loop.
RECURSIVE ForEachHandler(_, _)
ForEachHandler(rest, event) ==
    IF rest = {}
    THEN {[invoked |-> <<>>, raised |-> Returned]}
    ELSE UNION {
           LET r == Handle(h[1], event, h[2])
               c == [handler |-> h[1], event |-> event, result |-> r]
           IN  IF r # Returned
               THEN {[invoked |-> <<c>>, raised |-> r]}
               ELSE {[invoked |-> <<c>> \o t.invoked, raised |-> t.raised] :
                        t \in ForEachHandler(rest \ {h[1]}, event)}
           : h \in rest \X Behaviours }

\* except KeyError as error: raise ValueError(...) from error.  The try block
\* holds the dict lookup and the whole loop, so a KeyError from either is
\* caught; any other exception passes through.
ExceptKeyError(raised, event) ==
    IF raised.exc = "KeyError" THEN EventNotRegistered(event.cls) ELSE raised

\* Variant of the lookup with a default: self.__handlers.get(name, set())
Lookup_Default(hs, name) ==
    [raised |-> Returned, value |-> IF name \in DOMAIN hs THEN hs[name] ELSE {}]

\* self.__handlers[name]: the set, or KeyError
Lookup(hs, name) ==
    IF name \in DOMAIN hs
    THEN [raised |-> Returned, value |-> hs[name]]
    ELSE [raised |-> [exc |-> "KeyError", msg |-> <<name>>], value |-> {}]

\* Variant of notify over a defaultdict-like mapping: an unknown event class
\* gets a key with an empty set and nothing is raised.
Notify_SetDefault(hs, event) ==
    IF event.cls \notin DOMAIN hs
    THEN {[handlers |-> hs @@ (event.cls :> {}), invoked |-> <<>>, outcome |-> Returned]}
    ELSE {[handlers |-> hs, invoked |-> r.invoked,
           outcome |-> ExceptKeyError(r.raised, event)] :
             r \in ForEachHandler(hs[event.cls], event)}

\* notify(event): the set of its possible results.
Notify(hs, event) ==
    LET l == Lookup(hs, event.cls)
    IN  IF l.raised # Returned
        THEN {[handlers |-> hs, invoked |-> <<>>, outcome |-> ExceptKeyError(l.raised, event)]}
        ELSE {[handlers |-> hs, invoked |-> r.invoked,
               outcome |-> ExceptKeyError(r.raised, event)] :
                 r \in ForEachHandler(l.value, event)}

notify(event) ==
    \E r \in Notify(handlers, event) :
        /\ handlers' = r.handlers
        /\ outcome' = r.outcome
        /\ invoked' = r.invoked
        /\ call' = [op |-> "notify", event_name |-> event.cls, arg |-> event]
        /\ before' = handlers
        /\ UNCHANGED evars

----------------------------------------------------------------------------
(* Events: event_protocols.py, EventInterface.                             *)

\* datetime.isoformat(): the string form of a clock reading
Isoformat(t) == [str |-> t]

\* a datetime object a caller passes as date_time_ocurred
Datetime(t) == [datetime |-> t]

\* what a caller passes as data: an Order instance, the class Order itself,
\* a dict, None
Payloads ==
    {[py |-> "instance", cls |-> "Order"], [py |-> "class", cls |-> "Order"],
     [py |-> "instance", cls |-> "dict"], [py |-> "instance", cls |-> "NoneType"]}

\* explicit date_time_ocurred arguments; NoArg stands for leaving it out
Timestamps == {Datetime(0)}

\* dataclasses.is_dataclass(x): true of a dataclass and of its instances
IsDataclass(x) == x.cls = "Order"

\* dataclasses._is_dataclass_instance(x), the test made by asdict
IsDataclassInstance(x) == IsDataclass(x) /\ x.py = "instance"

\* asdict(Order(status='created', total=100))
AsDict(x) == [status |-> "created", total |-> 100, _id |-> "uuid4"]

\* str(x.__class__.__name__).lower()
LowerClassName(x) ==
    IF x.py = "class" THEN "type"
    ELSE CASE x.cls = "Order" -> "order"
           [] x.cls = "dict" -> "dict"
           [] OTHER -> "nonetype"

MustBeDataclass(x) ==
    [exc |-> "ValueError", msg |-> <<x.py, x.cls, " must be a dataclass">>]

AsdictOnInstances ==
    [exc |-> "TypeError", msg |-> <<"asdict() should be called on dataclass instances">>]

\* OrderCreatedEvent(data=data[, date_time_ocurred=ts]): the generated
\* __init__ stores the fields, default being the value the field default had
\* when the class was defined, then __post_init__ checks data.
EventInit(default, data, ts) ==
    LET self == [cls |-> "OrderCreatedEvent", data |-> data,
                 date_time_ocurred |-> IF ts = NoArg THEN default ELSE ts]
    IN  IF ~IsDataclass(self.data)
        THEN [raised |-> MustBeDataclass(self.data), value |-> NoArg]
        ELSE [raised |-> Returned, value |-> self]

\* self.to_dict(): the key is evaluated, then asdict(self.data)
ToDict(self) ==
    IF ~IsDataclassInstance(self.data)
    THEN [raised |-> AsdictOnInstances, value |-> NoArg]
    ELSE [raised |-> Returned,
          value  |-> [date_time_occurred |-> self.date_time_ocurred,
                      key |-> LowerClassName(self.data),
                      fields |-> AsDict(self.data)]]

\* the clock advances
Tick ==
    /\ clock < MaxClock
    /\ clock' = clock + 1
    /\ UNCHANGED <<date_time_ocurred, events, made>>
    /\ UNCHANGED dvars

\* A caller constructs an event.  events keeps each object with the clock
\* reading of its construction and whether the timestamp was passed.
construct(data, ts) ==
    LET r == EventInit(date_time_ocurred, data, ts)
    IN  /\ Cardinality(events) < MaxEvents
        /\ events' = IF r.raised = Returned
                     THEN events \cup {[event |-> r.value, at |-> clock,
                                        explicit |-> ts # NoArg]}
                     ELSE events
        /\ made' = [op |-> "__init__", data |-> data, at |-> clock,
                    outcome |-> r.raised, value |-> r.value]
        /\ UNCHANGED <<clock, date_time_ocurred>>
        /\ UNCHANGED dvars

\* A caller converts an event it holds.
to_dict(x) ==
    LET r == ToDict(x.event)
    IN  /\ made' = [op |-> "to_dict", data |-> x.event.data, at |-> clock,
                    outcome |-> r.raised, value |-> r.value]
        /\ UNCHANGED <<clock, date_time_ocurred, events>>
        /\ UNCHANGED dvars

----------------------------------------------------------------------------
Init ==
    /\ handlers = <<>>
    /\ call = [op |-> "__init__", event_name |-> "", arg |-> NoArg]
    /\ outcome = Returned
    /\ invoked = <<>>
    /\ before = <<>>
    /\ clock = 0
    /\ date_time_ocurred = Isoformat(clock)
    /\ events = {}
    /\ made = [op |-> "import", data |-> NoArg, at |-> clock,
               outcome |-> Returned, value |-> NoArg]

Next ==
    \/ \E n \in EventNames, x \in Objects : register(n, x)
    \/ \E n \in EventNames, x \in Objects : unregister(n, x)
    \/ unregister_all
    \/ \E e \in Events : notify(e)

Spec == Init /\ [][Next]_vars

\* construction and conversion of events, with the clock advancing
NextEvent ==
    \/ Tick
    \/ \E data \in Payloads, ts \in Timestamps \cup {NoArg} : construct(data, ts)
    \/ \E x \in events : to_dict(x)

SpecEvent == Init /\ [][NextEvent]_vars

----------------------------------------------------------------------------
(* notify when handlers call the dispatcher from handle(event).  The loop  *)
(* of notify iterates the set object it looked up, which register and      *)
(* unregister change in place and which unregister_all leaves alone (it    *)
(* binds __handlers to a new dict).  The state threaded through a delivery *)
(* is the dict, the number of times it has been replaced, the trace of     *)
(* handle calls and returns, the nesting depth and the exception raised.   *)

\* what a set iterator raises when the set's size differs from the size it
\* had when the iteration began
SetChangedSize ==
    [exc |-> "RuntimeError", msg |-> <<"Set changed size during iteration">>]

\* an entry of the trace: handle(event) of handler is called, returns or
\* raises, depth outer notify calls being in progress
Step(step, handler, event, depth) ==
    [step |-> step, handler |-> handler, event |-> event, depth |-> depth]

\* the arguments the calling handlers pass
RegisteredFromHandle == [cls |-> "TestHandler", id |-> 2]
UnregisteredFromHandle == [cls |-> "TestHandler", id |-> 1]
NotifiedFromHandle == [cls |-> "OrderCreatedEvent", id |-> 1]

\* Variant of handle in which the notifying handler returns without the
\* event having been delivered (the delivery is put off).
HandleReentrant_Deferred(st, h, event) ==
    IF h.cls = "RegisteringHandler"
    THEN LET r == Register(st.handlers, "EventTest", RegisteredFromHandle)
         IN  {[st EXCEPT !.handlers = r.handlers, !.raised = r.outcome]}
    ELSE IF h.cls = "UnregisteringHandler"
    THEN LET r == Unregister(st.handlers, "EventTest", UnregisteredFromHandle)
         IN  {[st EXCEPT !.handlers = r.handlers, !.raised = r.outcome]}
    ELSE IF h.cls = "UnregisterAllHandler"
    THEN {[st EXCEPT !.handlers = UnregisterAll(st.handlers).handlers,
                     !.replaced = @ + 1]}
    ELSE {[st EXCEPT !.raised = Returned]}

RECURSIVE NotifyReentrant(_, _)
RECURSIVE Iterate(_, _, _, _, _)
RECURSIVE HandleReentrant(_, _, _)

\* h.handle(event): the states in which it can end
HandleReentrant(st, h, event) ==
    IF h.cls = "RegisteringHandler"
    THEN LET r == Register(st.handlers, "EventTest", RegisteredFromHandle)
         IN  {[st EXCEPT !.handlers = r.handlers, !.raised = r.outcome]}
    ELSE IF h.cls = "UnregisteringHandler"
    THEN LET r == Unregister(st.handlers, "EventTest", UnregisteredFromHandle)
         IN  {[st EXCEPT !.handlers = r.handlers, !.raised = r.outcome]}
    ELSE IF h.cls = "UnregisterAllHandler"
    THEN {[st EXCEPT !.handlers = UnregisterAll(st.handlers).handlers,
                     !.replaced = @ + 1]}
    ELSE IF h.cls = "NotifyingHandler"
    THEN NotifyReentrant(st, NotifiedFromHandle)
    ELSE {[st EXCEPT !.raised = Handle(h, event, "return")]}

\* for handler in <set>: handler.handle(event), continued after the handlers
\* in visited.  start is the set as looked up, replaced0 the number of dict
\* replacements at that time: the iterated set is the one in the dict as long
\* as the dict has not been replaced, and start, unchanged, afterwards.
Iterate(st, event, start, visited, replaced0) ==
    LET cur == IF st.replaced = replaced0 THEN st.handlers[event.cls] ELSE start
    IN  IF Cardinality(cur) # Cardinality(start)
        THEN {[st EXCEPT !.raised = SetChangedSize]}
        ELSE IF cur \ visited = {}
        THEN {st}
        ELSE UNION {
               UNION {
                 IF r.raised # Returned
                 THEN {[r EXCEPT !.depth = st.depth,
                                 !.trace = Append(@, Step("raise", h, event, st.depth + 1))]}
                 ELSE Iterate([r EXCEPT !.depth = st.depth,
                                        !.trace = Append(@, Step("return", h, event, st.depth + 1))],
                              event, start, visited \cup {h}, replaced0)
                 : r \in HandleReentrant(
                           [st EXCEPT !.depth = @ + 1,
                                      !.trace = Append(@, Step("call", h, event, st.depth + 1))],
                           h, event) }
               : h \in cur \ visited }

\* notify(event) called with the delivery state st
NotifyReentrant(st, event) ==
    LET l == Lookup(st.handlers, event.cls)
    IN  IF l.raised # Returned
        THEN {[st EXCEPT !.raised = ExceptKeyError(l.raised, event)]}
        ELSE {[r EXCEPT !.raised = ExceptKeyError(r.raised, event)] :
                r \in Iterate(st, event, l.value, {}, st.replaced)}

\* notify(event) called by the application; invoked becomes the trace
notify_reentrant(event) ==
    \E r \in NotifyReentrant([handlers |-> handlers, replaced |-> 0, trace |-> <<>>,
                              depth |-> 0, raised |-> Returned], event) :
        /\ handlers' = r.handlers
        /\ outcome' = r.raised
        /\ invoked' = r.trace
        /\ call' = [op |-> "notify", event_name |-> event.cls, arg |-> event]
        /\ before' = handlers
        /\ UNCHANGED evars

\* The application subscribes two TestHandler instances (the ones the
\* calling handlers pass) and the calling handlers, the calling ones
\* to EventTest, keeps handler sets below MaxSubscribers + 1 members, clears
\* the registry and notifies.
NextReentrant ==
    \/ \E n \in EventNames,
          x \in {UnregisteredFromHandle, RegisteredFromHandle} \cup CallingHandlers :
          /\ x \in CallingHandlers => n = "EventTest"
          /\ n \in DOMAIN handlers => Cardinality(handlers[n]) < MaxSubscribers
          /\ register(n, x)
    \/ unregister_all
    \/ \E e \in Events : notify_reentrant(e)

SpecReentrant == Init /\ [][NextReentrant]_vars

----------------------------------------------------------------------------
(* Vocabulary of the properties.                                           *)

\* how many handle calls the most recent call made on the object h
TimesInvoked(h) == Cardinality({i \in 1..Len(invoked) : invoked[i].handler = h})

\* no handle call of the most recent call raised
NoHandlerRaised == \A i \in 1..Len(invoked) : invoked[i].result = Returned

\* some handle call of the most recent call raised
SomeHandlerRaised == \E i \in 1..Len(invoked) : invoked[i].result # Returned

\* the most recent call was notify of an event whose class name was a key
NotifiedRegistered == call.op = "notify" /\ call.event_name \in DOMAIN before

\* the handlers registered under some key other than name, and not under name
OnlyUnderOtherNames(hs, name) ==
    UNION {hs[n] : n \in DOMAIN hs \ {name}} \ hs[name]

\* x is a member of the set s: "x in s" holds (an unhashable object is in no
\* set)
IsMember(s, x) == Hashable(x) /\ \E m \in s : Eq(m, x)

\* the most recent call was register / unregister with these properties
Registered == call.op = "register"
Unregistered == call.op = "unregister"

----------------------------------------------------------------------------
(* C1: notify(event) of an event whose class name is a key, when no handler *)
(* raises, calls handle exactly once, with that event, on every handler in  *)
(* that name's set, and never on a handler that is registered only under    *)
(* other event names (nor on any other object).                             *)
C1_NotifyInvokesEachSubscriberOnce ==
    (NotifiedRegistered /\ NoHandlerRaised) =>
        /\ \A h \in before[call.event_name] : TimesInvoked(h) = 1
        /\ \A h \in Objects \ before[call.event_name] : TimesInvoked(h) = 0
        /\ \A i \in 1..Len(invoked) : invoked[i].event = call.arg

\* a notify that delivered to a set of three handlers while another handler
\* was registered only under the other event name
C1_Witness ==
    /\ NotifiedRegistered /\ NoHandlerRaised
    /\ Cardinality(before[call.event_name]) = 3
    /\ Len(invoked) = 3
    /\ OnlyUnderOtherNames(before, call.event_name) # {}

(* C2: whatever a handler's handle raises while notify delivers a           *)
(* registered event is what leaves notify, unchanged; in particular notify  *)
(* never reports it as "Event '<name>' not registered".                     *)
C2_HandlerFaultPropagatesVerbatim ==
    (NotifiedRegistered /\ SomeHandlerRaised) =>
        /\ outcome = invoked[Len(invoked)].result
        /\ outcome # EventNotRegistered(call.event_name)

(* C3: when a handler's handle raises during notify, notify ends at once    *)
(* with a failure: the raising call is the last handle call made, so every  *)
(* handler of the set not yet invoked is never invoked; every handler       *)
(* invoked before it was invoked exactly once; the mapping is as it was.    *)
C3_FaultAbortsDelivery ==
    (NotifiedRegistered /\ SomeHandlerRaised) =>
        /\ outcome # Returned
        /\ \A i \in 1..Len(invoked) : invoked[i].result # Returned => i = Len(invoked)
        /\ \A i \in 1..Len(invoked) :
              /\ invoked[i].handler \in before[call.event_name]
              /\ TimesInvoked(invoked[i].handler) = 1
        /\ Cardinality(before[call.event_name]) > Len(invoked) =>
              \E h \in before[call.event_name] : TimesInvoked(h) = 0
        /\ handlers = before

\* a notify over three handlers whose second handle call raised: one handler
\* was invoked before the fault and one was left out
C3_Witness ==
    /\ NotifiedRegistered
    /\ Cardinality(before[call.event_name]) = 3
    /\ Len(invoked) = 2
    /\ invoked[1].result = Returned
    /\ invoked[2].result # Returned
    /\ outcome # Returned

(* C4: notify(event) of an event whose class name is not a key fails with   *)
(* ValueError "Event '<name>' not registered", calls no handler of any      *)
(* event name, and leaves the mapping unchanged; also when other event      *)
(* names are registered.                                                    *)
C4_NotifyUnknownEvent ==
    (call.op = "notify" /\ call.event_name \notin DOMAIN before) =>
        /\ outcome = EventNotRegistered(call.event_name)
        /\ invoked = <<>>
        /\ handlers = before

\* a notify of an unregistered event class while the other event name had
\* handlers
C4_Witness ==
    /\ call.op = "notify" /\ call.event_name \notin DOMAIN before
    /\ \E n \in DOMAIN before : before[n] # {}
    /\ outcome.exc = "ValueError"

(* C5: register(event_name, handler) with any object that is an           *)
(* EventHandlerInterface succeeds, and afterwards event_name is a key,      *)
(* handler is a member of its set, and every handler that was in that set   *)
(* is still in it.                                                          *)
C5_RegisterAddsHandler ==
    (Registered /\ IsHandler(call.arg)) =>
        /\ outcome = Returned
        /\ call.event_name \in DOMAIN handlers
        /\ IsMember(handlers[call.event_name], call.arg)
        /\ call.event_name \in DOMAIN before =>
              before[call.event_name] \subseteq handlers[call.event_name]

\* the most recent call registered a handler that was already a member of
\* the set of its event name
ReRegistered ==
    /\ Registered
    /\ call.event_name \in DOMAIN before
    /\ IsMember(before[call.event_name], call.arg)

\* how many of the handle calls of log were made on objects equal to x
TimesInvokedEqual(log, x) ==
    Cardinality({i \in 1..Len(log) : Eq(log[i].handler, x)})

(* C6: registering a handler that is already in the set of event_name       *)
(* returns without error and leaves the whole mapping as it was (so the     *)
(* set size is unchanged); a notify of that event name that follows calls   *)
(* that handler at most once, and exactly once when no handler raises.      *)
C6_RegisterIdempotent ==
    /\ [](ReRegistered =>
            /\ outcome = Returned
            /\ handlers = before
            /\ Cardinality(handlers[call.event_name])
                 = Cardinality(before[call.event_name]))
    /\ [][(/\ ReRegistered
           /\ call'.op = "notify"
           /\ call'.event_name = call.event_name)
          => /\ TimesInvokedEqual(invoked', call.arg) <= 1
             /\ NoHandlerRaised' => TimesInvokedEqual(invoked', call.arg) = 1]_vars

\* a handler was registered again under a name whose set held it and two
\* other handlers
C6_Witness ==
    /\ ReRegistered
    /\ outcome = Returned
    /\ Cardinality(before[call.event_name]) = 3

(* C7: register(event_name, x) with x not an EventHandlerInterface fails    *)
(* with TypeError and does not change the mapping: no handler is added and  *)
(* no key is created for event_name.                                        *)
C7_RegisterRejectsNonHandler ==
    (Registered /\ ~IsHandler(call.arg)) =>
        /\ outcome = NotAHandler
        /\ handlers = before
        /\ call.event_name \notin DOMAIN before => call.event_name \notin DOMAIN handlers

\* an object that is no handler was offered for a name that was not a key,
\* while the other name had a handler
C7_Witness ==
    /\ Registered /\ call.arg \in NonHandlers
    /\ call.event_name \notin DOMAIN before
    /\ \E n \in DOMAIN before : before[n] # {}
    /\ outcome.exc = "TypeError"

(* C8: unregister(event_name, handler) with event_name a key and handler a  *)
(* member of its set returns without error, removes exactly that handler    *)
(* (every other member stays) and leaves event_name a key, also when the    *)
(* set becomes empty.                                                       *)
C8_UnregisterRemovesHandler ==
    (/\ Unregistered
     /\ call.event_name \in DOMAIN before
     /\ IsMember(before[call.event_name], call.arg)) =>
        /\ outcome = Returned
        /\ call.event_name \in DOMAIN handlers
        /\ handlers[call.event_name] \subseteq before[call.event_name]
        /\ \A m \in before[call.event_name] :
              m \in handlers[call.event_name] <=> ~Eq(m, call.arg)
        /\ Cardinality(handlers[call.event_name])
             = Cardinality(before[call.event_name]) - 1

\* the only handler of a name was unregistered: the key stays, with an empty
\* set
C8_Witness ==
    /\ Unregistered /\ outcome = Returned
    /\ call.event_name \in DOMAIN before
    /\ Cardinality(before[call.event_name]) = 1
    /\ call.event_name \in DOMAIN handlers
    /\ handlers[call.event_name] = {}

(* C9: unregister(event_name, handler) with event_name not a key fails with *)
(* ValueError "Event '<name>' not registered", whatever object is passed as *)
(* handler and whatever other names are registered, and leaves the whole    *)
(* mapping unchanged.                                                       *)
C9_UnregisterUnknownEvent ==
    (Unregistered /\ call.event_name \notin DOMAIN before) =>
        /\ outcome = EventNotRegistered(call.event_name)
        /\ handlers = before

\* a handler registered under the other name was unregistered from a name
\* that is not a key
C9_Witness ==
    /\ Unregistered /\ call.event_name \notin DOMAIN before
    /\ \E n \in DOMAIN before : IsMember(before[n], call.arg)
    /\ outcome.exc = "ValueError"

(* C10: unregister(event_name, handler) with event_name a key and handler   *)
(* not a member of its set fails with ValueError "EventHandler '<class>'    *)
(* not registered for event '<name>'" and leaves the whole mapping          *)
(* unchanged.                                                               *)
C10_UnregisterUnknownHandler ==
    (/\ Unregistered
     /\ call.event_name \in DOMAIN before
     /\ ~IsMember(before[call.event_name], call.arg)) =>
        /\ outcome = HandlerNotRegistered(call.arg, call.event_name)
        /\ handlers = before

(* C11: unregister_all() returns without error from every state and leaves *)
(* the mapping with no keys at all; a notify of any event and an unregister *)
(* of any event name that follows, and more generally any that finds the    *)
(* name not a key, fails with ValueError "Event '<name>' not registered".   *)
C11_UnregisterAllEmpties ==
    /\ [](call.op = "unregister_all" =>
            /\ outcome = Returned
            /\ DOMAIN handlers = {})
    /\ [][(/\ call'.op \in {"notify", "unregister"}
           /\ \/ call.op = "unregister_all"
              \/ call'.event_name \notin DOMAIN handlers)
          => /\ outcome' = EventNotRegistered(call'.event_name)
             /\ invoked' = <<>>]_vars

\* unregister_all was called on a mapping with two keys that both had
\* handlers
C11_Witness ==
    /\ call.op = "unregister_all"
    /\ Cardinality(DOMAIN before) = 2
    /\ \A n \in DOMAIN before : before[n] # {}
    /\ DOMAIN handlers = {}

(* C12: every event constructed without an explicit timestamp carries the   *)
(* clock reading at the moment of its construction (in isoformat): none     *)
(* carries a reading taken before its construction, and two such events     *)
(* constructed at different clock readings carry different timestamps.      *)
C12_DefaultTimestampIsConstructionClock ==
    /\ \A x \in events :
          ~x.explicit => x.event.date_time_ocurred = Isoformat(x.at)
    /\ \A x, y \in events :
          (~x.explicit /\ ~y.explicit /\ x.at # y.at)
             => x.event.date_time_ocurred # y.event.date_time_ocurred

(* C13: the dispatcher starts with an empty mapping; the mapping changes    *)
(* only in register, unregister and unregister_all calls; a notify call     *)
(* (its handlers return or raise, none calls the dispatcher) leaves the     *)
(* mapping, keys and sets, as it found it whether it returns or fails; and  *)
(* the mapping never holds an event, only handlers that were registered.    *)
C13_OnlyRegistryCallsMutate ==
    /\ [](call.op = "__init__" => DOMAIN handlers = {})
    /\ [](call.op = "notify" => handlers = before)
    /\ [](\A n \in DOMAIN handlers :
            /\ handlers[n] \cap Events = {}
            /\ \A m \in handlers[n] : IsHandler(m))
    /\ [][handlers' # handlers =>
            call'.op \in {"register", "unregister", "unregister_all"}]_vars

\* a notify that failed after a handle call, on a mapping with two keys
C13_Witness ==
    /\ call.op = "notify"
    /\ outcome # Returned
    /\ Len(invoked) = 2
    /\ Cardinality(DOMAIN handlers) = 2
    /\ handlers = before

(* C14: constructing an event succeeds only when the payload is a dataclass *)
(* instance: for every other payload the constructor fails with ValueError  *)
(* "<payload> must be a dataclass", and no event object exists whose        *)
(* payload is not a dataclass instance.                                     *)
C14_NonRecordPayloadRejected ==
    /\ (made.op = "__init__" /\ ~IsDataclassInstance(made.data))
          => made.outcome = MustBeDataclass(made.data)
    /\ \A x \in events : IsDataclassInstance(x.event.data)

\* the number of handle calls the notify called by the application itself
\* made on h
TimesDelivered(h) ==
    Cardinality({i \in 1..Len(invoked) :
                   /\ invoked[i].step = "call"
                   /\ invoked[i].handler = h
                   /\ invoked[i].depth = 1})

\* no handle call was left by an exception
NoHandleRaised == \A i \in 1..Len(invoked) : invoked[i].step # "raise"

(* C15: notify delivers to the handler set as it stood when the call        *)
(* started, also when handle calls register, unregister or unregister_all   *)
(* on the same dispatcher: when no handle call raises, notify returns and   *)
(* has called handle exactly once on every handler that was in the event's  *)
(* set at the start.                                                        *)
C15_DeliversToSetAtStart ==
    (NotifiedRegistered /\ NoHandleRaised) =>
        /\ outcome = Returned
        /\ \A h \in before[call.event_name] : TimesDelivered(h) = 1

\* entries i and j of the trace are the call and the return of one handle
\* call of the notifying handler
NestedNotify(i, j) ==
    /\ i < j
    /\ invoked[i].step = "call" /\ invoked[j].step = "return"
    /\ invoked[i].handler.cls = "NotifyingHandler"
    /\ invoked[j].handler = invoked[i].handler
    /\ invoked[j].depth = invoked[i].depth

\* the handle calls made on h between entries i and j of the trace
CallsBetween(h, i, j) ==
    {k \in (i + 1)..(j - 1) : invoked[k].step = "call" /\ invoked[k].handler = h}

\* the returns of h between entries i and j of the trace
ReturnsBetween(h, i, j) ==
    {k \in (i + 1)..(j - 1) : invoked[k].step = "return" /\ invoked[k].handler = h}

(* C16: delivery is synchronous and depth-first.  When a handler handling   *)
(* an EventTest calls notify(OrderCreatedEvent) and that call returns, then *)
(* between the handler's call and its return every handler registered for   *)
(* OrderCreatedEvent has been called exactly once and has returned, and no  *)
(* other handler of the outer event has been called in between; the trace   *)
(* of a notify that returns is balanced, every handle call in it having     *)
(* returned before notify did, so nothing is pending afterwards.            *)
C16_NestedDeliveryDepthFirst ==
    call.op = "notify" =>
       /\ \A i, j \in 1..Len(invoked) : NestedNotify(i, j) =>
             /\ NotifiedFromHandle.cls \in DOMAIN before
             /\ \A k \in (i + 1)..(j - 1) :
                   /\ invoked[k].depth = invoked[i].depth + 1
                   /\ invoked[k].event = NotifiedFromHandle
             /\ \A h \in before[NotifiedFromHandle.cls] :
                   /\ Cardinality(CallsBetween(h, i, j)) = 1
                   /\ Cardinality(ReturnsBetween(h, i, j)) = 1
       /\ outcome = Returned =>
             /\ \A i \in 1..Len(invoked) : invoked[i].step = "call" =>
                   \E j \in (i + 1)..Len(invoked) :
                      /\ invoked[j].step = "return"
                      /\ invoked[j].handler = invoked[i].handler
                      /\ invoked[j].depth = invoked[i].depth
             /\ invoked # <<>> =>
                   /\ invoked[Len(invoked)].step = "return"
                   /\ invoked[Len(invoked)].depth = 1

\* a notify of an EventTest returned; its second handle call was the
\* notifying handler's, two handlers of OrderCreatedEvent were called inside
\* it and a third handler of EventTest after it
C16_Witness ==
    /\ call.op = "notify" /\ call.event_name = "EventTest"
    /\ outcome = Returned
    /\ Len(invoked) = 10
    /\ NestedNotify(3, 8)
    /\ Cardinality(before[NotifiedFromHandle.cls]) = 2
    /\ invoked[9].step = "call" /\ invoked[9].depth = 1

\* the most recent call passed a handler h2 while the set of its event name
\* held another instance h1 equal to it
EqualInstanceStored(h1) ==
    /\ call.event_name \in DOMAIN before
    /\ h1 \in before[call.event_name]
    /\ h1 # call.arg
    /\ Eq(h1, call.arg)

(* C17: set membership follows the handler's own equality, not identity.    *)
(* No set ever holds two equal handlers.  With h1 stored for e and h2 a     *)
(* distinct instance equal to h1: register(e, h2) returns and leaves h1 as  *)
(* the only such member (h2 is not stored); notify calls handle only on     *)
(* stored instances, so on h1 and never on h2; unregister(e, h2) returns    *)
(* and removes h1, after which the set holds neither and notify calls       *)
(* neither.                                                                 *)
C17_MembershipByEquality ==
    /\ \A n \in DOMAIN handlers : \A a, b \in handlers[n] : Eq(a, b) => a = b
    /\ \A h1 \in SendNewPaymentRequests :
         /\ (Registered /\ EqualInstanceStored(h1)) =>
               /\ outcome = Returned
               /\ handlers = before
               /\ call.arg \notin handlers[call.event_name]
         /\ (Unregistered /\ EqualInstanceStored(h1)) =>
               /\ outcome = Returned
               /\ \A m \in handlers[call.event_name] : ~Eq(m, h1)
               /\ handlers[call.event_name] = before[call.event_name] \ {h1}
    /\ NotifiedRegistered =>
         /\ \A i \in 1..Len(invoked) : invoked[i].handler \in before[call.event_name]
         /\ \A h1 \in before[call.event_name] : \A h2 \in Objects :
               (Eq(h1, h2) /\ h1 # h2) => TimesInvoked(h2) = 0
         /\ NoHandlerRaised =>
               \A h1 \in before[call.event_name] : TimesInvoked(h1) = 1

\* unregister was called with the second SendNewPaymentRequest instance on a
\* set that held the first one and a TestHandler
C17_Witness ==
    /\ Unregistered /\ outcome = Returned
    /\ call.arg = [cls |-> "SendNewPaymentRequest", id |-> 2]
    /\ EqualInstanceStored([cls |-> "SendNewPaymentRequest", id |-> 1])
    /\ Cardinality(before[call.event_name]) = 2
    /\ Cardinality(handlers[call.event_name]) = 1

\* the most recent call was an unregister that returned and left the set of
\* its event name empty
EmptiedByUnregister ==
    /\ Unregistered /\ outcome = Returned
    /\ call.event_name \in DOMAIN handlers
    /\ handlers[call.event_name] = {}

(* C18: an event name whose handler set unregister has just emptied is      *)
(* still registered: a notify of an event of that class returns without     *)
(* error and calls no handler, and an unregister of any object for that     *)
(* name fails with ValueError "EventHandler '<class>' not registered for    *)
(* event '<name>'", not with "Event '<name>' not registered".               *)
C18_EmptiedNameStaysRegistered ==
    [][(EmptiedByUnregister /\ call'.event_name = call.event_name) =>
          /\ call'.op = "notify" =>
                (outcome' = Returned /\ invoked' = <<>>)
          /\ call'.op = "unregister" =>
                outcome' = HandlerNotRegistered(call'.arg, call'.event_name)]_vars

(* C19: keys are created only by a register that returns and removed only  *)
(* by unregister_all: a name that is a key before a register, unregister or *)
(* notify call, returning or failing, is a key after it, and a name becomes *)
(* a key only in a register call for that name that returns.                *)
C19_KeysOnlyBySuccessfulRegister ==
    [][/\ call'.op \in {"register", "unregister", "notify"} =>
             DOMAIN handlers \subseteq DOMAIN handlers'
       /\ \A n \in DOMAIN handlers' \ DOMAIN handlers :
             /\ call'.op = "register"
             /\ call'.event_name = n
             /\ outcome' = Returned]_vars

\* the most recent call was register or unregister for one name while the
\* other name was a key
OtherNames == DOMAIN before \ {call.event_name}

(* C20: event names are independent: a register or unregister call for e,   *)
(* returning or failing, leaves the keys other than e and their handler     *)
(* sets as they were, also when the handler is registered under both names; *)
(* after unregister(e, h) a notify for another name e' whose set holds h    *)
(* still calls h (exactly once when no handler raises).                     *)
C20_EventNamesIndependent ==
    /\ []((Registered \/ Unregistered) =>
            /\ DOMAIN handlers \ {call.event_name} = OtherNames
            /\ \A n \in OtherNames : handlers[n] = before[n])
    /\ [][(/\ Unregistered /\ outcome = Returned
           /\ call'.op = "notify"
           /\ call'.event_name # call.event_name
           /\ call'.event_name \in DOMAIN handlers
           /\ IsMember(handlers[call'.event_name], call.arg)
           /\ NoHandlerRaised')
          => TimesInvokedEqual(invoked', call.arg) = 1]_vars

\* a handler registered under both names was unregistered from one of them
\* and is still in the other name's set
C20_Witness ==
    /\ Unregistered /\ outcome = Returned
    /\ OtherNames # {}
    /\ \A n \in OtherNames :
          /\ IsMember(before[n], call.arg)
          /\ IsMember(handlers[n], call.arg)
          /\ Cardinality(handlers[n]) = 2

=============================================================================
